---- MODULE Spec2Model ----
(***************************************************************************)
(* HHparking: the LocationService singleton (parking / leaving detection   *)
(* over a stream of GPS samples) together with the host facilities it      *)
(* uses: the Geolocation watch subscriptions and the setTimeout queue.     *)
(*                                                                         *)
(* Coordinates are counted in steps of the watch's distanceFilter (10 m).  *)
(* The tracked samples lie on one meridian: with equal longitudes the      *)
(* haversine formula of calculateDistance reduces to R * |dphi|, i.e. to   *)
(* the length of the arc between the two latitudes.  DistanceSpec and      *)
(* NearbySpec apply the distance function and                              *)
(* FirebaseService.getNearbyParkingSpots to points off the meridian too.   *)
(*                                                                         *)
(* MapScreen is the service's caller in AppSpec: its tracking button, the  *)
(* dialogs its callbacks open and the documents reportParkingSpot adds to  *)
(* the Firestore collection 'parkingSpots' (coordinates and isAvailable).  *)
(***************************************************************************)
EXTENDS Integers, FiniteSets, Sequences, TLC

\* ---- bounds of the model ------------------------------------------------
MaxLat == 6
MaxTime == 60
TickSeconds == 30
MaxTimers == 2
MaxStarts == 2
SampleCap == 2
MaxAlerts == 1
MaxSpots == 2
MaxLon == 2
MaxRadius == 2

\* ---- program constants --------------------------------------------------
stationaryThreshold == 30
StationaryMeters == 20
LeavingMeters == 50
distanceFilter == 10
NoWatch == 0
NoTimer == 0
QueryLimit == 50

null == <<>>

Latitudes == 0..MaxLat

Coordinate(lat) == [latitude |-> lat, longitude |-> 0]

Locations == {Coordinate(lat) : lat \in Latitudes}

Abs(x) == IF x < 0 THEN -x ELSE x

Min(a, b) == IF a < b THEN a ELSE b

Longitudes == 0..MaxLon

\* coordinates off the meridian, in grid steps north and east of the origin
Points == [latitude : Latitudes, longitude : Longitudes]

\* cos of a latitude in units of 1 / CosScale: 1 at the origin, falling
\* towards the pole
CosScale == MaxLat + 1

cosine(lat) == CosScale - lat

\* the haversine term a, as the squared length in metres of the chord:
\* sin^2 of half the latitude difference plus cos * cos * sin^2 of half the
\* longitude difference (the sine of a grid step is the step)
haversine(dLat, dLon, cos1, cos2) ==
    (distanceFilter * distanceFilter
        * (dLat * dLat * CosScale * CosScale + cos1 * cos2 * dLon * dLon))
      \div (CosScale * CosScale)

\* R * c: the length whose square is a, rounded down; it lies between lo and hi
sqrt(a2, lo, hi) ==
    IF lo = hi THEN lo ELSE CHOOSE d \in lo..hi : d * d <= a2 /\ a2 < (d + 1) * (d + 1)

\* variant: the cosine of the first latitude is taken twice
calculateDistance_oneCosine(pos1, pos2) ==
    LET dLat == pos2.latitude - pos1.latitude
        dLon == pos2.longitude - pos1.longitude
    IN  sqrt(haversine(dLat, dLon, cosine(pos1.latitude), cosine(pos1.latitude)),
             distanceFilter * Abs(dLat),
             distanceFilter * (Abs(dLat) + Abs(dLon)))

\* metres between two points; on the meridian distanceFilter * |dLat|
calculateDistance(pos1, pos2) ==
    LET dLat == pos2.latitude - pos1.latitude
        dLon == pos2.longitude - pos1.longitude
    IN  sqrt(haversine(dLat, dLon, cosine(pos1.latitude), cosine(pos2.latitude)),
             distanceFilter * Abs(dLat),
             distanceFilter * (Abs(dLat) + Abs(dLon)))

\* one invocation of a callback handed to startLocationTracking
Call(cb, location) == [cb |-> cb, location |-> location]

HasCall(cs, cb) == \E i \in 1..Len(cs) : cs[i].cb = cb

VARIABLES
    watchId,          \* LocationService.watchId (NoWatch = null)
    lastLocation,     \* LocationService.lastLocation
    isParked,         \* LocationService.isParked
    stationaryTimer,  \* LocationService.stationaryTimer (NoTimer = null)
    watches,          \* Geolocation: ids of the active watchPosition subscriptions
    nextWatchId,      \* Geolocation: id the next watchPosition returns
    timers,           \* host: scheduled setTimeout callbacks with their closures
    now,              \* wall clock, seconds
    calls,            \* callbacks invoked by the last step, in order
    op,               \* the last step: its name, sample and timer
    pre,              \* the service's fields before the last step
    query,            \* arguments of a call of a pure function under test
    answer,           \* what that call returned
    parkedAt,         \* coordinate of the last ParkDetected not yet followed by LeavingDetected
    cancelled,        \* ids of the timers that stopLocationTracking cleared
    pending,          \* the sample that set the pending timer and when, or null
    sessionSamples,   \* samples delivered since the last startLocationTracking (capped)
    lastSample,       \* the sample the watch delivered last, or null
    movedAt,          \* when, within the last stationaryThreshold seconds, a sample
                      \* lay 20 m or more from the sample before it
    quiet,            \* a timer is pending and no sample came after the one that set it
    currentLocation,  \* MapScreen: state currentLocation
    isTracking,       \* MapScreen: state isTracking
    rendered,         \* MapScreen: what the handlers of the last render closed over
    alerts,           \* MapScreen: the confirm dialogs that are open
    parkingSpots      \* Firestore: the documents of the collection 'parkingSpots'

vars == <<watchId, lastLocation, isParked, stationaryTimer, watches, nextWatchId,
          timers, now, calls, op, pre, parkedAt, cancelled,
          pending, sessionSamples, lastSample, movedAt, quiet,
          currentLocation, isTracking, rendered, alerts, parkingSpots,
          query, answer>>

\* the handle the next setTimeout returns: one the host has not handed out
\* for a timer that is still scheduled or that was cleared
FreshTimerId ==
    CHOOSE id \in 1..(MaxTimers + 1) :
        /\ id \notin cancelled \cup {t.id : t \in timers}
        /\ \A other \in 1..(id - 1) : other \in cancelled \cup {t.id : t \in timers}

\* the fields of the service, and the host's timer queue, as one value
This ==
    [lastLocation |-> lastLocation, isParked |-> isParked,
     stationaryTimer |-> stationaryTimer, timers |-> timers,
     nextTimerId |-> FreshTimerId, calls |-> <<>>]

Snapshot ==
    [lastLocation |-> lastLocation, isParked |-> isParked,
     stationaryTimer |-> stationaryTimer, watchId |-> watchId,
     pending |-> pending]

Op(name, location, timer) == [name |-> name, location |-> location, timer |-> timer]

\* setTimeout(callback, stationaryThreshold * 1000): the closure keeps newLocation
setTimeout(this, newLocation) ==
    [this EXCEPT
        !.stationaryTimer = this.nextTimerId,
        !.timers = @ \cup {[id |-> this.nextTimerId,
                            deadline |-> now + stationaryThreshold,
                            newLocation |-> newLocation]}]

\* clearTimeout(this.stationaryTimer); this.stationaryTimer = null
clearTimeout(this) ==
    [this EXCEPT
        !.timers = {t \in @ : t.id # this.stationaryTimer},
        !.stationaryTimer = NoTimer]

\* variant: a missing anchor is taken as "no displacement"
detectParkingState_anchorless(this, newLocation) ==
    LET distance == IF this.lastLocation = null THEN 0
                    ELSE calculateDistance(this.lastLocation, newLocation)
        isStationary == distance < StationaryMeters
    IN  IF isStationary /\ ~this.isParked THEN
            IF this.stationaryTimer = NoTimer
            THEN setTimeout(this, newLocation)
            ELSE this
        ELSE IF ~isStationary THEN
            LET moved == IF this.stationaryTimer # NoTimer
                         THEN clearTimeout(this) ELSE this
            IN  IF moved.isParked /\ distance > LeavingMeters
                THEN [moved EXCEPT
                        !.isParked = FALSE,
                        !.calls = Append(@, Call("onLeavingDetected", moved.lastLocation))]
                ELSE moved
        ELSE this

\* variant: the stationary branch does not look at isParked
detectParkingState_reparks(this, newLocation) ==
    IF this.lastLocation = null THEN this
    ELSE
      LET distance == calculateDistance(this.lastLocation, newLocation)
          isStationary == distance < StationaryMeters
      IN  IF isStationary THEN
              IF this.stationaryTimer = NoTimer
              THEN setTimeout(this, newLocation)
              ELSE this
          ELSE
              LET moved == IF this.stationaryTimer # NoTimer
                           THEN clearTimeout(this) ELSE this
              IN  IF moved.isParked /\ distance > LeavingMeters
                  THEN [moved EXCEPT
                          !.isParked = FALSE,
                          !.calls = Append(@, Call("onLeavingDetected", moved.lastLocation))]
                  ELSE moved

\* variant: leaving is detected from LeavingMeters on (>= instead of >)
detectParkingState_leavesAt50(this, newLocation) ==
    IF this.lastLocation = null THEN this
    ELSE
      LET distance == calculateDistance(this.lastLocation, newLocation)
          isStationary == distance < StationaryMeters
      IN  IF isStationary /\ ~this.isParked THEN
              IF this.stationaryTimer = NoTimer
              THEN setTimeout(this, newLocation)
              ELSE this
          ELSE IF ~isStationary THEN
              LET moved == IF this.stationaryTimer # NoTimer
                           THEN clearTimeout(this) ELSE this
              IN  IF moved.isParked /\ distance >= LeavingMeters
                  THEN [moved EXCEPT
                          !.isParked = FALSE,
                          !.calls = Append(@, Call("onLeavingDetected", moved.lastLocation))]
                  ELSE moved
          ELSE this

\* variant: movement leaves a pending timer scheduled
detectParkingState_keepsTimer(this, newLocation) ==
    IF this.lastLocation = null THEN this
    ELSE
      LET distance == calculateDistance(this.lastLocation, newLocation)
          isStationary == distance < StationaryMeters
      IN  IF isStationary /\ ~this.isParked THEN
              IF this.stationaryTimer = NoTimer
              THEN setTimeout(this, newLocation)
              ELSE this
          ELSE IF ~isStationary THEN
              IF this.isParked /\ distance > LeavingMeters
              THEN [this EXCEPT
                      !.isParked = FALSE,
                      !.calls = Append(@, Call("onLeavingDetected", this.lastLocation))]
              ELSE this
          ELSE this

\* variant: a stationary sample restarts the pending timer (debounce)
detectParkingState_restarts(this, newLocation) ==
    IF this.lastLocation = null THEN this
    ELSE
      LET distance == calculateDistance(this.lastLocation, newLocation)
          isStationary == distance < StationaryMeters
      IN  IF isStationary /\ ~this.isParked THEN
              IF this.stationaryTimer = NoTimer
              THEN setTimeout(this, newLocation)
              ELSE setTimeout(clearTimeout(this), newLocation)
          ELSE IF ~isStationary THEN
              LET moved == IF this.stationaryTimer # NoTimer
                           THEN clearTimeout(this) ELSE this
              IN  IF moved.isParked /\ distance > LeavingMeters
                  THEN [moved EXCEPT
                          !.isParked = FALSE,
                          !.calls = Append(@, Call("onLeavingDetected", moved.lastLocation))]
                  ELSE moved
          ELSE this

\* variant: exactly StationaryMeters still counts as stationary (<= instead of <)
detectParkingState_stationaryAt20(this, newLocation) ==
    IF this.lastLocation = null THEN this
    ELSE
      LET distance == calculateDistance(this.lastLocation, newLocation)
          isStationary == distance <= StationaryMeters
      IN  IF isStationary /\ ~this.isParked THEN
              IF this.stationaryTimer = NoTimer
              THEN setTimeout(this, newLocation)
              ELSE this
          ELSE IF ~isStationary THEN
              LET moved == IF this.stationaryTimer # NoTimer
                           THEN clearTimeout(this) ELSE this
              IN  IF moved.isParked /\ distance > LeavingMeters
                  THEN [moved EXCEPT
                          !.isParked = FALSE,
                          !.calls = Append(@, Call("onLeavingDetected", moved.lastLocation))]
                  ELSE moved
          ELSE this

\* variant: LeavingDetected is emitted but isParked is not reset
detectParkingState_staysParked(this, newLocation) ==
    IF this.lastLocation = null THEN this
    ELSE
      LET distance == calculateDistance(this.lastLocation, newLocation)
          isStationary == distance < StationaryMeters
      IN  IF isStationary /\ ~this.isParked THEN
              IF this.stationaryTimer = NoTimer
              THEN setTimeout(this, newLocation)
              ELSE this
          ELSE IF ~isStationary THEN
              LET moved == IF this.stationaryTimer # NoTimer
                           THEN clearTimeout(this) ELSE this
              IN  IF moved.isParked /\ distance > LeavingMeters
                  THEN [moved EXCEPT
                          !.calls = Append(@, Call("onLeavingDetected", moved.lastLocation))]
                  ELSE moved
          ELSE this

detectParkingState(this, newLocation) ==
    IF this.lastLocation = null THEN this
    ELSE
      LET distance == calculateDistance(this.lastLocation, newLocation)
          isStationary == distance < StationaryMeters
      IN  IF isStationary /\ ~this.isParked THEN
              IF this.stationaryTimer = NoTimer
              THEN setTimeout(this, newLocation)
              ELSE this
          ELSE IF ~isStationary THEN
              LET moved == IF this.stationaryTimer # NoTimer
                           THEN clearTimeout(this) ELSE this
              IN  IF moved.isParked /\ distance > LeavingMeters
                  THEN [moved EXCEPT
                          !.isParked = FALSE,
                          !.calls = Append(@, Call("onLeavingDetected", moved.lastLocation))]
                  ELSE moved
          ELSE this

Constructed ==
    /\ watchId = NoWatch
    /\ lastLocation = null
    /\ isParked = FALSE
    /\ stationaryTimer = NoTimer
    /\ watches = {}
    /\ nextWatchId = 1
    /\ timers = {}
    /\ now = 0
    /\ calls = <<>>
    /\ op = Op("init", null, NoTimer)
    /\ parkedAt = null
    /\ cancelled = {}
    /\ pending = null
    /\ sessionSamples = 0
    /\ lastSample = null
    /\ movedAt = {}
    /\ quiet = FALSE
    /\ currentLocation = null
    /\ isTracking = FALSE
    /\ rendered = [isTracking |-> FALSE, located |-> FALSE]
    /\ alerts = {}
    /\ parkingSpots = <<>>
    /\ pre = Snapshot

Init ==
    /\ Constructed
    /\ query = null
    /\ answer = null

\* getCurrentLocation, success callback of Geolocation.getCurrentPosition
GetCurrentLocation(location) ==
    /\ lastLocation' = location
    /\ calls' = <<>>
    /\ op' = Op("getCurrentLocation", location, NoTimer)
    /\ pre' = Snapshot
    /\ UNCHANGED <<watchId, isParked, stationaryTimer, watches, nextWatchId, timers,
                   now, parkedAt, cancelled, pending, sessionSamples>>

\* getCurrentLocation, error callback: resolves null
GetCurrentLocationError ==
    /\ calls' = <<>>
    /\ op' = Op("getCurrentLocationError", null, NoTimer)
    /\ pre' = Snapshot
    /\ UNCHANGED <<watchId, lastLocation, isParked, stationaryTimer, watches,
                   nextWatchId, timers, now, parkedAt, cancelled,
                   pending, sessionSamples>>

StartLocationTracking ==
    /\ nextWatchId <= MaxStarts
    /\ watchId' = nextWatchId
    /\ watches' = watches \cup {nextWatchId}
    /\ nextWatchId' = nextWatchId + 1
    /\ calls' = <<>>
    /\ op' = Op("start", null, NoTimer)
    /\ pre' = Snapshot
    /\ sessionSamples' = 0
    /\ UNCHANGED <<lastLocation, isParked, stationaryTimer, timers, now,
                   parkedAt, cancelled, pending>>

\* variant: the field is reset but the host timer is not cleared
StopLocationTracking_keepsTimer ==
    /\ watches' = IF watchId # NoWatch THEN watches \ {watchId} ELSE watches
    /\ watchId' = NoWatch
    /\ timers' = timers
    /\ stationaryTimer' = NoTimer
    /\ cancelled' = IF stationaryTimer # NoTimer
                    THEN cancelled \cup {stationaryTimer} ELSE cancelled
    /\ pending' = null
    /\ calls' = <<>>
    /\ op' = Op("stop", null, NoTimer)
    /\ pre' = Snapshot
    /\ UNCHANGED <<lastLocation, isParked, nextWatchId, now, parkedAt,
                   sessionSamples>>

\* variant: the timer is only cleared inside the watchId branch
StopLocationTracking_nested ==
    /\ watches' = IF watchId # NoWatch THEN watches \ {watchId} ELSE watches
    /\ watchId' = NoWatch
    /\ timers' = IF watchId # NoWatch /\ stationaryTimer # NoTimer
                 THEN clearTimeout(This).timers ELSE timers
    /\ stationaryTimer' = IF watchId # NoWatch THEN NoTimer ELSE stationaryTimer
    /\ cancelled' = IF watchId # NoWatch /\ stationaryTimer # NoTimer
                    THEN cancelled \cup {stationaryTimer} ELSE cancelled
    /\ pending' = IF watchId # NoWatch THEN null ELSE pending
    /\ calls' = <<>>
    /\ op' = Op("stop", null, NoTimer)
    /\ pre' = Snapshot
    /\ UNCHANGED <<lastLocation, isParked, nextWatchId, now, parkedAt,
                   sessionSamples>>

\* variant: stopping also forgets that the car is parked
StopLocationTracking_resets ==
    /\ watches' = IF watchId # NoWatch THEN watches \ {watchId} ELSE watches
    /\ watchId' = NoWatch
    /\ timers' = IF stationaryTimer # NoTimer THEN clearTimeout(This).timers ELSE timers
    /\ stationaryTimer' = NoTimer
    /\ cancelled' = IF stationaryTimer # NoTimer
                    THEN cancelled \cup {stationaryTimer} ELSE cancelled
    /\ pending' = null
    /\ isParked' = FALSE
    /\ calls' = <<>>
    /\ op' = Op("stop", null, NoTimer)
    /\ pre' = Snapshot
    /\ UNCHANGED <<lastLocation, nextWatchId, now, parkedAt,
                   sessionSamples>>

StopLocationTracking ==
    /\ watches' = IF watchId # NoWatch THEN watches \ {watchId} ELSE watches
    /\ watchId' = NoWatch
    /\ timers' = IF stationaryTimer # NoTimer THEN clearTimeout(This).timers ELSE timers
    /\ stationaryTimer' = NoTimer
    /\ cancelled' = IF stationaryTimer # NoTimer
                    THEN cancelled \cup {stationaryTimer} ELSE cancelled
    /\ pending' = null
    /\ calls' = <<>>
    /\ op' = Op("stop", null, NoTimer)
    /\ pre' = Snapshot
    /\ UNCHANGED <<lastLocation, isParked, nextWatchId, now, parkedAt,
                   sessionSamples>>

\* variant: the anchor is replaced before detection runs
WatchPosition_anchorsFirst(w, newLocation) ==
    /\ w \in watches
    /\ LET updated == [This EXCEPT !.calls = <<Call("onLocationUpdate", newLocation)>>,
                                   !.lastLocation = newLocation]
           this == detectParkingState(updated, newLocation)
       IN  /\ this.stationaryTimer <= MaxTimers
           /\ lastLocation' = newLocation
           /\ isParked' = this.isParked
           /\ stationaryTimer' = this.stationaryTimer
           /\ timers' = this.timers
           /\ calls' = this.calls
           /\ parkedAt' = IF HasCall(this.calls, "onLeavingDetected")
                          THEN null ELSE parkedAt
           /\ pending' = IF this.stationaryTimer = NoTimer THEN null
                         ELSE IF stationaryTimer = NoTimer
                              THEN [sample |-> newLocation, setAt |-> now]
                              ELSE pending
    /\ op' = Op("sample", newLocation, NoTimer)
    /\ pre' = Snapshot
    /\ sessionSamples' = Min(sessionSamples + 1, SampleCap)
    /\ UNCHANGED <<watchId, watches, nextWatchId, now, cancelled>>

\* success callback of Geolocation.watchPosition, for a sample of watch w
WatchPosition(w, newLocation) ==
    /\ w \in watches
    /\ LET updated == [This EXCEPT !.calls = <<Call("onLocationUpdate", newLocation)>>]
           this == detectParkingState(updated, newLocation)
       IN  /\ this.stationaryTimer <= MaxTimers
           /\ lastLocation' = newLocation
           /\ isParked' = this.isParked
           /\ stationaryTimer' = this.stationaryTimer
           /\ timers' = this.timers
           /\ calls' = this.calls
           /\ parkedAt' = IF HasCall(this.calls, "onLeavingDetected")
                          THEN null ELSE parkedAt
           /\ pending' = IF this.stationaryTimer = NoTimer THEN null
                         ELSE IF stationaryTimer = NoTimer
                              THEN [sample |-> newLocation, setAt |-> now]
                              ELSE pending
    /\ op' = Op("sample", newLocation, NoTimer)
    /\ pre' = Snapshot
    /\ sessionSamples' = Min(sessionSamples + 1, SampleCap)
    /\ UNCHANGED <<watchId, watches, nextWatchId, now, cancelled>>

\* variant: a source error ends the session
WatchError_stops(w) ==
    /\ w \in watches
    /\ watches' = IF watchId # NoWatch THEN watches \ {watchId} ELSE watches
    /\ watchId' = NoWatch
    /\ timers' = IF stationaryTimer # NoTimer THEN clearTimeout(This).timers ELSE timers
    /\ stationaryTimer' = NoTimer
    /\ pending' = null
    /\ calls' = <<>>
    /\ op' = Op("watchError", null, NoTimer)
    /\ pre' = Snapshot
    /\ UNCHANGED <<lastLocation, isParked, nextWatchId, now, parkedAt, cancelled,
                   sessionSamples>>

\* error callback of Geolocation.watchPosition: console.error only
WatchError(w) ==
    /\ w \in watches
    /\ calls' = <<>>
    /\ op' = Op("watchError", null, NoTimer)
    /\ pre' = Snapshot
    /\ UNCHANGED <<watchId, lastLocation, isParked, stationaryTimer, watches,
                   nextWatchId, timers, now, parkedAt, cancelled,
                   pending, sessionSamples>>

\* variant: the callback reports the service's latest position
StationaryTimeout_latest(t) ==
    /\ t \in timers
    /\ now >= t.deadline
    /\ isParked' = TRUE
    /\ calls' = <<Call("onParkingDetected", lastLocation)>>
    /\ stationaryTimer' = NoTimer
    /\ timers' = timers \ {t}
    /\ parkedAt' = lastLocation
    /\ pending' = null
    /\ op' = Op("timeout", null, t.id)
    /\ pre' = Snapshot
    /\ UNCHANGED <<watchId, lastLocation, watches, nextWatchId, now,
                   cancelled, sessionSamples>>

\* variant: the delay is taken in milliseconds, so the callback is due at once
StationaryTimeout_early(t) ==
    /\ t \in timers
    /\ isParked' = TRUE
    /\ calls' = <<Call("onParkingDetected", t.newLocation)>>
    /\ stationaryTimer' = NoTimer
    /\ timers' = timers \ {t}
    /\ parkedAt' = t.newLocation
    /\ pending' = null
    /\ op' = Op("timeout", null, t.id)
    /\ pre' = Snapshot
    /\ UNCHANGED <<watchId, lastLocation, watches, nextWatchId, now,
                   cancelled, sessionSamples>>

\* variant: onParkingDetected throws, so the handle is never reset
StationaryTimeout_throws(t) ==
    /\ t \in timers
    /\ now >= t.deadline
    /\ isParked' = TRUE
    /\ calls' = <<Call("onParkingDetected", t.newLocation)>>
    /\ stationaryTimer' = stationaryTimer
    /\ timers' = timers \ {t}
    /\ parkedAt' = t.newLocation
    /\ pending' = null
    /\ op' = Op("timeout", null, t.id)
    /\ pre' = Snapshot
    /\ UNCHANGED <<watchId, lastLocation, watches, nextWatchId, now,
                   cancelled, sessionSamples>>

\* the callback given to setTimeout in detectParkingState, run by the host
\* once the delay has passed
StationaryTimeout(t) ==
    /\ t \in timers
    /\ now >= t.deadline
    /\ isParked' = TRUE
    /\ calls' = <<Call("onParkingDetected", t.newLocation)>>
    /\ stationaryTimer' = NoTimer
    /\ timers' = timers \ {t}
    /\ parkedAt' = t.newLocation
    /\ pending' = null
    /\ op' = Op("timeout", null, t.id)
    /\ pre' = Snapshot
    /\ UNCHANGED <<watchId, lastLocation, watches, nextWatchId, now,
                   cancelled, sessionSamples>>

\* time passes
Tick ==
    /\ now + TickSeconds <= MaxTime
    /\ now' = now + TickSeconds
    /\ calls' = <<>>
    /\ op' = Op("tick", null, NoTimer)
    /\ pre' = Snapshot
    /\ UNCHANGED <<watchId, lastLocation, isParked, stationaryTimer, watches,
                   nextWatchId, timers, parkedAt, cancelled,
                   pending, sessionSamples>>

\* what the step just taken adds to the record of the samples
History ==
    /\ lastSample' = IF op'.name = "sample" THEN op'.location ELSE lastSample
    /\ movedAt' = IF /\ op'.name = "sample"
                     /\ lastSample # null
                     /\ calculateDistance(lastSample, op'.location) >= StationaryMeters
                  THEN {now'}
                  ELSE {t \in movedAt : now' - t < stationaryThreshold}
    /\ quiet' = IF stationaryTimer' = NoTimer THEN FALSE
                ELSE IF stationaryTimer' # stationaryTimer THEN TRUE
                ELSE quiet /\ op'.name # "sample"

\* the service alone: nobody keeps the record of the samples, and its
\* callbacks belong to an arbitrary caller
Alone ==
    UNCHANGED <<lastSample, movedAt, quiet, currentLocation, isTracking, rendered,
                alerts, parkingSpots, query, answer>>

Next ==
    \/ (\E location \in Locations : GetCurrentLocation(location)) /\ Alone
    \/ GetCurrentLocationError /\ Alone
    \/ StartLocationTracking /\ Alone
    \/ StopLocationTracking /\ Alone
    \/ (\E w \in watches, newLocation \in Locations : WatchPosition(w, newLocation)) /\ Alone
    \/ (\E w \in watches : WatchError(w)) /\ Alone
    \/ (\E t \in timers : StationaryTimeout(t)) /\ Alone
    \/ Tick /\ Alone

Spec == Init /\ [][Next]_vars

\* the behaviours in which the application never asks for a one-off fix:
\* lastLocation is then written by the watch callback only
TrackingNext ==
    \/ StartLocationTracking /\ Alone
    \/ StopLocationTracking /\ Alone
    \/ (\E w \in watches, newLocation \in Locations : WatchPosition(w, newLocation)) /\ Alone
    \/ (\E w \in watches : WatchError(w)) /\ Alone
    \/ (\E t \in timers : StationaryTimeout(t)) /\ Alone
    \/ Tick /\ Alone

TrackingSpec == Init /\ [][TrackingNext]_vars

\* the host's event loop runs the callback of a timer that stays due
TimerFires == (\E t \in timers : StationaryTimeout(t)) /\ Alone

FairSpec == TrackingSpec /\ WF_vars(TimerFires)

\* the same service with the record of the samples kept
Observed ==
    History /\ UNCHANGED <<currentLocation, isTracking, rendered, alerts, parkingSpots,
                           query, answer>>

ObservedNext ==
    \/ (\E location \in Locations : GetCurrentLocation(location)) /\ Observed
    \/ StartLocationTracking /\ Observed
    \/ (\E w \in watches, newLocation \in Locations : WatchPosition(w, newLocation)) /\ Observed
    \/ (\E t \in timers : StationaryTimeout(t)) /\ Observed
    \/ Tick /\ Observed

ObservedSpec == Init /\ [][ObservedNext]_vars

\* ---- MapScreen: the callbacks it hands to the service, and its reports ----

\* the dialog MapScreen opens from onParkingDetected (isAvailable false) or
\* onLeavingDetected (isAvailable true)
Alert(call) ==
    [location |-> call.location, isAvailable |-> call.cb = "onLeavingDetected"]

\* the collection is followed until it holds MaxSpots documents
StoreOpen == Len(parkingSpots) < MaxSpots

\* the callbacks of MapScreen.startLocationTracking, run on the service's calls:
\* onLocationUpdate sets currentLocation, the other two open a dialog
MapScreenCallbacks ==
    /\ StoreOpen
    /\ currentLocation' =
          IF HasCall(calls', "onLocationUpdate")
          THEN calls'[CHOOSE i \in 1..Len(calls') : calls'[i].cb = "onLocationUpdate"].location
          ELSE currentLocation
    /\ alerts' = alerts \cup {Alert(calls'[i]) :
                                i \in {j \in 1..Len(calls') : calls'[j].cb # "onLocationUpdate"}}
    /\ Cardinality(alerts') <= MaxAlerts
    /\ UNCHANGED <<parkingSpots, lastSample, movedAt, quiet, query, answer>>

\* MapScreen.initializeLocation, run once when the screen mounts: the fix
\* of getCurrentLocation becomes currentLocation
InitializeLocation(location) ==
    /\ op.name = "init"
    /\ GetCurrentLocation(location)
    /\ currentLocation' = location
    /\ UNCHANGED <<isTracking, alerts, parkingSpots, lastSample, movedAt, quiet,
                   query, answer>>

\* what a render of MapScreen would close over now
View == [isTracking |-> isTracking, located |-> currentLocation # null]

\* React renders MapScreen after a state update: the button's onPress and the
\* functions it calls now see the current state
Render ==
    /\ rendered # View
    /\ rendered' = View
    /\ calls' = <<>>
    /\ op' = Op("render", null, NoTimer)
    /\ pre' = Snapshot
    /\ UNCHANGED <<watchId, lastLocation, isParked, stationaryTimer, watches,
                   nextWatchId, timers, now, parkedAt, cancelled,
                   pending, sessionSamples, lastSample, movedAt, quiet,
                   currentLocation, isTracking, alerts, parkingSpots,
                   query, answer>>

\* the tracking button as rendered with isTracking false:
\* MapScreen.startLocationTracking
PressStart ==
    /\ ~rendered.isTracking
    /\ rendered.located
    /\ isTracking' = TRUE
    /\ StartLocationTracking
    /\ MapScreenCallbacks

\* the tracking button as rendered with isTracking true:
\* MapScreen.stopLocationTracking
PressStop ==
    /\ rendered.isTracking
    /\ isTracking' = FALSE
    /\ StopLocationTracking
    /\ MapScreenCallbacks

\* a step of the service or its host while MapScreen is its caller
Hosted == MapScreenCallbacks /\ UNCHANGED isTracking

ServiceIdle ==
    /\ calls' = <<>>
    /\ pre' = Snapshot
    /\ UNCHANGED <<watchId, lastLocation, isParked, stationaryTimer, watches,
                   nextWatchId, timers, now, parkedAt, cancelled,
                   pending, sessionSamples, lastSample, movedAt, quiet,
                   currentLocation, isTracking, rendered>>

\* FirebaseService.createParkingSpot: collection('parkingSpots').add(spot)
createParkingSpot(collection, spot) == Append(collection, spot)

\* MapScreen.reportParkingSpot, as far as the collection goes
reportParkingSpot(collection, location, isAvailable) ==
    createParkingSpot(collection,
        [latitude |-> location.latitude, longitude |-> location.longitude,
         isAvailable |-> isAvailable])

\* the user presses Confirm: reportParkingSpot(location, isAvailable) succeeds
AlertConfirm(a) ==
    /\ a \in alerts
    /\ StoreOpen
    /\ parkingSpots' = reportParkingSpot(parkingSpots, a.location, a.isAvailable)
    /\ alerts' = alerts \ {a}
    /\ op' = Op(IF a.isAvailable THEN "reportAvailable" ELSE "reportTaken",
                a.location, NoTimer)
    /\ ServiceIdle
    /\ UNCHANGED <<query, answer>>

\* the user presses Confirm and createParkingSpot throws: the catch block
AlertConfirmFails(a) ==
    /\ a \in alerts
    /\ alerts' = alerts \ {a}
    /\ op' = Op("reportFailed", a.location, NoTimer)
    /\ ServiceIdle
    /\ UNCHANGED <<query, answer>>
    /\ UNCHANGED parkingSpots

\* the user presses Cancel
AlertCancel(a) ==
    /\ a \in alerts
    /\ alerts' = alerts \ {a}
    /\ op' = Op("alertCancel", a.location, NoTimer)
    /\ ServiceIdle
    /\ UNCHANGED <<query, answer>>
    /\ UNCHANGED parkingSpots

\* React has rendered the new state before the next event is handled
Prompt == rendered' = [isTracking |-> isTracking', located |-> currentLocation' # null]

AppNext ==
    \/ (\E location \in Locations : InitializeLocation(location)) /\ Prompt
    \/ PressStart /\ Prompt
    \/ PressStop /\ Prompt
    \/ (\E w \in watches, newLocation \in Locations : WatchPosition(w, newLocation))
          /\ Hosted /\ Prompt
    \/ (\E t \in timers : StationaryTimeout(t)) /\ Hosted /\ Prompt
    \/ Tick /\ Hosted /\ Prompt
    \/ \E a \in alerts : AlertConfirm(a)
    \/ \E a \in alerts : AlertConfirmFails(a)
    \/ \E a \in alerts : AlertCancel(a)

AppSpec == Init /\ [][AppNext]_vars

\* the render may come after further presses and samples have been handled
Lagging == UNCHANGED rendered

ToggleNext ==
    \/ (\E location \in Locations : InitializeLocation(location)) /\ Lagging
    \/ PressStart /\ Lagging
    \/ PressStop /\ Lagging
    \/ Render
    \/ (\E w \in watches, newLocation \in Locations : WatchPosition(w, newLocation))
          /\ Hosted /\ Lagging

ToggleSpec == Init /\ [][ToggleNext]_vars

\* ---- the distance function on its own ---------------------------------

DistanceInit ==
    /\ Constructed
    /\ query \in [pos1 : Points, pos2 : Points]
    /\ answer = null

\* one call calculateDistance(pos1, pos2)
CalculateDistance ==
    /\ answer' = calculateDistance(query.pos1, query.pos2)
    /\ op' = Op("calculateDistance", null, NoTimer)
    /\ ServiceIdle
    /\ UNCHANGED <<query, alerts, parkingSpots>>

DistanceSpec == DistanceInit /\ [][CalculateDistance]_vars

\* ---- FirebaseService.getNearbyParkingSpots ------------------------------

\* FirebaseService.calculateDistance: the same haversine on four numbers
FirebaseService_calculateDistance(lat1, lon1, lat2, lon2) ==
    LET dLat == lat2 - lat1
        dLon == lon2 - lon1
    IN  sqrt(haversine(dLat, dLon, cosine(lat1), cosine(lat2)),
             distanceFilter * Abs(dLat),
             distanceFilter * (Abs(dLat) + Abs(dLon)))

\* .where('isAvailable', '==', true)
where_isAvailable(collection) == SelectSeq(collection, LAMBDA spot : spot.isAvailable)

\* .limit(n)
limit(docs, n) == SubSeq(docs, 1, Min(n, Len(docs)))

\* spots.sort by distance from the query point; equal distances keep their order
RECURSIVE sort(_, _, _)
sort(spots, latitude, longitude) ==
    IF Len(spots) <= 1
    THEN spots
    ELSE LET distanceOf(spot) ==
                 FirebaseService_calculateDistance(latitude, longitude,
                                                   spot.latitude, spot.longitude)
             rest == sort(Tail(spots), latitude, longitude)
             k == Cardinality({i \in 1..Len(rest) :
                                  distanceOf(rest[i]) < distanceOf(Head(spots))})
         IN  SubSeq(rest, 1, k) \o <<Head(spots)>> \o SubSeq(rest, k + 1, Len(rest))

\* variant: the records are returned in the order of the snapshot
getNearbyParkingSpots_unsorted(collection, latitude, longitude, radiusKm) ==
    LET snapshot == limit(where_isAvailable(collection), QueryLimit)
    IN  SelectSeq(snapshot,
                  LAMBDA spot :
                      FirebaseService_calculateDistance(latitude, longitude,
                                                        spot.latitude, spot.longitude)
                          <= radiusKm)

\* the try block of getNearbyParkingSpots; lengths are in the model's metres
getNearbyParkingSpots(collection, latitude, longitude, radiusKm) ==
    LET snapshot == limit(where_isAvailable(collection), QueryLimit)
        spots == SelectSeq(snapshot,
                           LAMBDA spot :
                               FirebaseService_calculateDistance(latitude, longitude,
                                                                 spot.latitude,
                                                                 spot.longitude)
                                   <= radiusKm)
    IN  sort(spots, latitude, longitude)

\* the records the collection can hold
ParkingSpots == [latitude : Latitudes, longitude : {0}, isAvailable : BOOLEAN]

Radii == {distanceFilter * k : k \in 0..MaxRadius}

NearbyInit ==
    /\ Constructed
    /\ \E n \in 0..MaxSpots : query \in [collection : [1..n -> ParkingSpots],
                                         latitude : Latitudes,
                                         longitude : Longitudes,
                                         radiusKm : Radii]
    /\ answer = null

GetNearbyParkingSpots ==
    /\ answer' = getNearbyParkingSpots(query.collection, query.latitude,
                                       query.longitude, query.radiusKm)
    /\ op' = Op("getNearbyParkingSpots", null, NoTimer)
    /\ ServiceIdle
    /\ UNCHANGED <<query, alerts, parkingSpots>>

\* the store query rejects: the catch block
GetNearbyParkingSpotsError ==
    /\ answer' = <<>>
    /\ op' = Op("getNearbyParkingSpotsError", null, NoTimer)
    /\ ServiceIdle
    /\ UNCHANGED <<query, alerts, parkingSpots>>

NearbyNext ==
    \/ GetNearbyParkingSpots
    \/ GetNearbyParkingSpotsError

NearbySpec == NearbyInit /\ [][NearbyNext]_vars

TypeOK ==
    /\ watchId \in 0..MaxStarts
    /\ lastLocation \in Locations \cup {null}
    /\ isParked \in BOOLEAN
    /\ stationaryTimer \in 0..MaxTimers
    /\ watches \subseteq 1..MaxStarts
    /\ now \in 0..MaxTime
    /\ Cardinality(timers) <= 1
    /\ lastSample \in Locations \cup {null}
    /\ movedAt \subseteq 0..MaxTime
    /\ quiet \in BOOLEAN
    /\ currentLocation \in Locations \cup {null}
    /\ isTracking \in BOOLEAN
    /\ rendered \in [isTracking : BOOLEAN, located : BOOLEAN]
    /\ Cardinality(alerts) <= MaxAlerts
    /\ Len(parkingSpots) <= MaxSpots
    /\ op.name = "calculateDistance" => answer \in Nat
    /\ op.name \in {"getNearbyParkingSpots", "getNearbyParkingSpotsError"} =>
          answer \in Seq(ParkingSpots)

\* ---- properties ---------------------------------------------------------

NoEvent ==
    /\ ~HasCall(calls, "onParkingDetected")
    /\ ~HasCall(calls, "onLeavingDetected")

\* displacement of the last sample, as detectParkingState measured it
Displacement == calculateDistance(pre.lastLocation, op.location)

FreshBefore ==
    /\ pre.lastLocation = null
    /\ ~pre.isParked
    /\ pre.stationaryTimer = NoTimer

\* C1: the first sample of a fresh service (no anchor, not parked, no timer)
\* emits neither ParkDetected nor LeavingDetected and starts no timer; it only
\* becomes the anchor, so nothing is scheduled that could emit an event.
FirstSampleOnlyAnchors ==
    (op.name = "sample" /\ FreshBefore) =>
        /\ NoEvent
        /\ stationaryTimer = NoTimer
        /\ timers = {}
        /\ ~isParked
        /\ lastLocation = op.location

FirstSampleSeen ==
    /\ op.name = "sample"
    /\ FreshBefore
    /\ lastLocation = op.location
    /\ calls = <<Call("onLocationUpdate", op.location)>>

\* C2: every LeavingDetected carries the coordinate reported by the most recent
\* ParkDetected.
LeavingCarriesParkedCoordinate ==
    [][\A i \in 1..Len(calls') :
          calls'[i].cb = "onLeavingDetected" => calls'[i].location = parkedAt]_vars

\* C3: while parked, a sample more than 50 m from the parked coordinate emits
\* LeavingDetected, whatever the steps that led there.
LeavingMeasuredFromParkedCoordinate ==
    [][(op'.name = "sample" /\ isParked /\ parkedAt # null
           /\ calculateDistance(parkedAt, op'.location) > LeavingMeters)
        => HasCall(calls', "onLeavingDetected")]_vars

\* C4: while parked, a sample that does not emit LeavingDetected leaves the
\* anchor lastLocation unchanged.
AnchorPinnedWhileParked ==
    [][(op'.name = "sample" /\ isParked /\ ~HasCall(calls', "onLeavingDetected"))
        => lastLocation' = lastLocation]_vars

\* C5: from a ParkDetected until the next LeavingDetected no step emits a
\* second ParkDetected and none leaves a confirm-timer scheduled.
NoSecondParkWhileParked ==
    [][parkedAt # null =>
          /\ ~HasCall(calls', "onParkingDetected")
          /\ stationaryTimer' = NoTimer
          /\ timers' = {}]_vars

StationarySampleWhileParked ==
    /\ op.name = "sample"
    /\ pre.isParked
    /\ parkedAt # null
    /\ Displacement < StationaryMeters
    /\ isParked

\* C6: a confirm-timer that was pending when stopLocationTracking was called
\* is no longer scheduled and never runs, and the stop leaves isParked false.
StopCancelsPendingPark ==
    /\ \A t \in timers : t.id \notin cancelled
    /\ op.name = "timeout" => op.timer \notin cancelled
    /\ (op.name = "stop" /\ pre.stationaryTimer # NoTimer) =>
          (~isParked /\ stationaryTimer = NoTimer /\ timers = {})

StoppedWhilePendingThenWaited ==
    /\ cancelled # {}
    /\ op.name = "tick"
    /\ now >= stationaryThreshold
    /\ timers = {}
    /\ ~isParked

\* C7: while parked, a sample displaced by 20 m to 50 m (both included) emits
\* no event, leaves isParked true and no confirm-timer running.
ParkedMidRangeSampleSilent ==
    (op.name = "sample" /\ pre.isParked /\ pre.lastLocation # null
        /\ Displacement >= StationaryMeters /\ Displacement <= LeavingMeters) =>
        /\ calls = <<Call("onLocationUpdate", op.location)>>
        /\ isParked
        /\ stationaryTimer = NoTimer
        /\ timers = {}

ParkedSampleAtLeavingRadius ==
    /\ op.name = "sample"
    /\ pre.isParked
    /\ pre.lastLocation # null
    /\ Displacement = LeavingMeters
    /\ isParked

\* C8 as stated: when the timer runs right after a sample, ParkDetected carries
\* that most recent sample.
ParkCarriesLatestSample ==
    [][(op.name = "sample" /\ op'.name = "timeout")
        => calls' = <<Call("onParkingDetected", op.location)>>]_vars

\* C8 amended: ParkDetected carries the coordinate of the sample that started
\* the confirm-timer, whatever samples were received while it was pending.
ParkCarriesTimerSample ==
    op.name = "timeout" =>
        /\ pre.pending # null
        /\ calls = <<Call("onParkingDetected", pre.pending.sample)>>

ParkAfterLaterSample ==
    /\ op.name = "timeout"
    /\ HasCall(calls, "onParkingDetected")
    /\ pre.pending # null
    /\ pre.lastLocation # pre.pending.sample

\* C9 as stated: ParkDetected is only emitted while a sample is processed.
ParkOnlyWhileSampling ==
    HasCall(calls, "onParkingDetected") => op.name = "sample"

\* C9 amended: ParkDetected is emitted only by the confirm-timer's callback,
\* once the delay has elapsed, never while a sample is processed; a sample
\* displaced by 20 m or more that is processed before the callback has run
\* cancels the pending park without any ParkDetected.
ParkOnlyFromTimeout ==
    /\ HasCall(calls, "onParkingDetected") =>
          /\ op.name = "timeout"
          /\ pre.pending # null
          /\ now >= pre.pending.setAt + stationaryThreshold
    /\ (op.name = "sample" /\ pre.lastLocation # null
           /\ Displacement >= StationaryMeters) =>
          /\ ~HasCall(calls, "onParkingDetected")
          /\ stationaryTimer = NoTimer
          /\ timers = {}

ElapsedParkCancelledByMove ==
    /\ op.name = "sample"
    /\ pre.pending # null
    /\ now >= pre.pending.setAt + stationaryThreshold
    /\ Displacement >= StationaryMeters
    /\ timers = {}
    /\ ~isParked

\* C10: the first sample of a session started after a stop emits no event,
\* because that session's machine starts without anchor, not parked, no timer.
RestartedSessionFirstSampleSilent ==
    (op.name = "sample" /\ sessionSamples = 1 /\ watchId > 1 /\ watches = {watchId})
        => NoEvent

\* C11: at most one confirm-timer is scheduled, it is the one the service
\* holds, and its deadline is 30 s after the sample that set it; a sample
\* displaced by less than 20 m that arrives while it is pending leaves that
\* timer, and so its deadline, as it was.
SinglePendingTimer ==
    /\ Cardinality(timers) <= 1
    /\ stationaryTimer = NoTimer => timers = {}
    /\ stationaryTimer # NoTimer =>
          /\ pending # null
          /\ \A t \in timers :
                /\ t.id = stationaryTimer
                /\ t.deadline = pending.setAt + stationaryThreshold
          /\ timers # {}
    /\ (op.name = "sample" /\ pre.stationaryTimer # NoTimer
           /\ Displacement < StationaryMeters) =>
          /\ stationaryTimer = pre.stationaryTimer
          /\ pending.setAt = pre.pending.setAt
          /\ pending.sample = pre.pending.sample

StationarySampleWhilePending ==
    /\ op.name = "sample"
    /\ pre.stationaryTimer # NoTimer
    /\ Displacement < StationaryMeters
    /\ now > pre.pending.setAt
    /\ stationaryTimer = pre.stationaryTimer

\* C12: a sample displaced by 20 m or more (exactly 20 m included) leaves no
\* timer scheduled; ParkDetected is only emitted for a scheduled timer, and a
\* timer only becomes scheduled by a sample displaced by less than 20 m.
MovementCancelsPendingPark ==
    [][/\ (op'.name = "sample" /\ lastLocation # null
              /\ calculateDistance(lastLocation, op'.location) >= StationaryMeters)
           => (stationaryTimer' = NoTimer /\ timers' = {})
       /\ HasCall(calls', "onParkingDetected") => timers # {}
       /\ (timers = {} /\ timers' # {})
           => /\ op'.name = "sample"
              /\ lastLocation # null
              /\ calculateDistance(lastLocation, op'.location) < StationaryMeters]_vars

PendingParkCancelledAt20 ==
    /\ op.name = "sample"
    /\ pre.stationaryTimer # NoTimer
    /\ Displacement = StationaryMeters
    /\ stationaryTimer = NoTimer
    /\ timers = {}

\* C13: every stopLocationTracking ends with watchId and stationaryTimer null
\* and calls nothing back; called with both already null (in particular right
\* after another stop) it changes nothing of the service or the host.
StopIsIdempotent ==
    [][op'.name = "stop" =>
          /\ watchId' = NoWatch
          /\ stationaryTimer' = NoTimer
          /\ calls' = <<>>
          /\ (op.name = "stop" \/ (watchId = NoWatch /\ stationaryTimer = NoTimer))
              => UNCHANGED <<watchId, lastLocation, isParked, stationaryTimer,
                             watches, nextWatchId, timers, now, parkedAt>>]_vars

StoppedTwice ==
    /\ op.name = "stop"
    /\ pre.watchId = NoWatch
    /\ pre.stationaryTimer = NoTimer
    /\ lastLocation # null

\* C14: lastLocation and isParked are changed by the processing of a tracked
\* sample only (not by getCurrentLocation, stopLocationTracking or the
\* source's error callback).
MachineChangedBySamplesOnly ==
    [][(lastLocation' # lastLocation \/ isParked' # isParked)
        => op'.name = "sample"]_vars

\* C16: the watch's error callback changes nothing (watchId, lastLocation,
\* isParked, the pending timer and the subscriptions stay) and calls nothing
\* back.
SourceErrorKeepsSession ==
    [][op'.name = "watchError" =>
          /\ UNCHANGED <<watchId, lastLocation, isParked, stationaryTimer, watches,
                         nextWatchId, timers, now, parkedAt, pending>>
          /\ calls' = <<>>]_vars

SourceErrorWhilePending ==
    /\ op.name = "watchError"
    /\ watchId # NoWatch
    /\ watchId \in watches
    /\ stationaryTimer # NoTimer
    /\ timers # {}

\* C20: the watch callback calls onLocationUpdate exactly once, first, with the
\* sample; detection then runs against the anchor of before the sample (a
\* LeavingDetected carries it, and without one no timer is set), and only then
\* does the sample become the anchor.  No other step calls onLocationUpdate.
SampleForwardedThenDetected ==
    /\ op.name = "sample" =>
          /\ Len(calls) >= 1
          /\ calls[1] = Call("onLocationUpdate", op.location)
          /\ \A i \in 2..Len(calls) :
                /\ calls[i].cb = "onLeavingDetected"
                /\ calls[i].location = pre.lastLocation
          /\ pre.lastLocation = null => stationaryTimer = NoTimer
          /\ lastLocation = op.location
    /\ op.name # "sample" => ~HasCall(calls, "onLocationUpdate")

SampleForwardedBeforeLeaving ==
    /\ op.name = "sample"
    /\ Len(calls) = 2
    /\ calls[1] = Call("onLocationUpdate", op.location)
    /\ calls[2] = Call("onLeavingDetected", pre.lastLocation)
    /\ lastLocation = op.location

\* C15: when the source delivers nothing more after the sample that set the
\* confirm-timer, and stopLocationTracking is not called, the timer is dropped
\* as by a stop: no ParkDetected is emitted for it.
SilentSourceCancelsPark ==
    [][HasCall(calls', "onParkingDetected") => ~quiet]_vars

\* C17 (as claimed): ParkDetected is emitted at the very second the timer
\* falls due, 30 s after the sample that set it.
ParkExactlyAtDeadline ==
    HasCall(calls, "onParkingDetected") =>
        now = pre.pending.setAt + stationaryThreshold

\* C17 (amended): a timer that has fallen due does not stay pending; it
\* only goes by its callback, which emits ParkDetected once, at 30 s or more
\* after the sample that set it and consumes the timer, or by a sample
\* displaced by 20 m or more, or by stopLocationTracking.
DueParkIsConfirmed ==
    /\ [](HasCall(calls, "onParkingDetected") =>
             /\ calls = <<Call("onParkingDetected", pre.pending.sample)>>
             /\ now >= pre.pending.setAt + stationaryThreshold
             /\ isParked
             /\ timers = {})
    /\ [][(timers # {} /\ timers' = {}) =>
             \/ HasCall(calls', "onParkingDetected")
             \/ op'.name = "stop"
             \/ /\ op'.name = "sample"
                /\ calculateDistance(lastLocation, op'.location) >= StationaryMeters]_vars
    /\ (\E t \in timers : now >= t.deadline) ~> (timers = {})

ParkConfirmedLate ==
    /\ op.name = "timeout"
    /\ HasCall(calls, "onParkingDetected")
    /\ now > pre.pending.setAt + stationaryThreshold

\* C18: no ParkDetected is emitted less than 30 s after a sample that lay
\* 20 m or more from the sample delivered before it.
ParkAfterStationaryWindow ==
    HasCall(calls, "onParkingDetected") =>
        \A t \in movedAt : now - t >= stationaryThreshold

\* C19: a confirmed leaving report, made while the collection holds a spot
\* stored as taken, adds no document: it turns one taken spot available.
LeaveReleasesStoredSpot ==
    [][(/\ op'.name = "reportAvailable"
        /\ \E i \in 1..Len(parkingSpots) : ~parkingSpots[i].isAvailable)
       => /\ Len(parkingSpots') = Len(parkingSpots)
          /\ \E i \in 1..Len(parkingSpots) :
                /\ ~parkingSpots[i].isAvailable
                /\ parkingSpots' = [parkingSpots EXCEPT ![i].isAvailable = TRUE]]_vars

\* C22: a sample processed while not parked becomes the anchor, and its
\* displacement was measured against the sample delivered just before it.
AnchorFollowsSamples ==
    [][(op'.name = "sample" /\ ~isParked) =>
          /\ lastLocation' = op'.location
          /\ lastLocation = lastSample]_vars

\* C23: the processing of a sample emits no ParkDetected and at most one
\* LeavingDetected; it emits one exactly when isParked held and the sample lay
\* more than 50 m from lastLocation, and then isParked is false and no timer
\* is scheduled.
SampleEmitsOnlyLeaving ==
    op.name = "sample" =>
        /\ ~HasCall(calls, "onParkingDetected")
        /\ Cardinality({i \in 1..Len(calls) : calls[i].cb = "onLeavingDetected"}) <= 1
        /\ HasCall(calls, "onLeavingDetected") <=>
              (pre.isParked /\ pre.lastLocation # null /\ Displacement > LeavingMeters)
        /\ HasCall(calls, "onLeavingDetected") =>
              (~isParked /\ stationaryTimer = NoTimer /\ timers = {})

LeavingOnSample ==
    /\ op.name = "sample"
    /\ pre.isParked
    /\ Displacement > LeavingMeters
    /\ HasCall(calls, "onLeavingDetected")
    /\ ~isParked
    /\ timers = {}

\* C24: over the life of the service a ParkDetected is only emitted when the
\* last event was not a ParkDetected, a LeavingDetected only when it was one,
\* and no step emits two events; sessions may start and stop in between.
EventsAlternate ==
    [][/\ HasCall(calls', "onParkingDetected") => parkedAt = null
       /\ HasCall(calls', "onLeavingDetected") => parkedAt # null
       /\ Cardinality({i \in 1..Len(calls') : calls'[i].cb # "onLocationUpdate"}) <= 1]_vars

LeavingInLaterSession ==
    /\ op.name = "sample"
    /\ HasCall(calls, "onLeavingDetected")
    /\ sessionSamples = 1
    /\ watchId > 1
    /\ watches = {watchId}

\* C25: while isParked is true no confirm-timer is held or scheduled.
ParkedHasNoTimer ==
    isParked => (stationaryTimer = NoTimer /\ timers = {} /\ pending = null)

JustParkedNoTimer ==
    /\ op.name = "timeout"
    /\ pre.stationaryTimer # NoTimer
    /\ isParked
    /\ stationaryTimer = NoTimer

\* C26: once stopLocationTracking has returned (watchId is null) no
\* subscription is active, so nothing is called back until the next start.
StopEndsEverySubscription ==
    watchId = NoWatch => (watches = {} /\ calls = <<>>)

\* C27: a ParkDetected is only emitted in a session whose watch has delivered
\* at least two samples.
ParkNeedsTwoSessionSamples ==
    HasCall(calls, "onParkingDetected") => sessionSamples >= 2

\* C28: MapScreen never calls startLocationTracking while a subscription is
\* active, and isTracking is true exactly when the service holds a watch.
TrackingMatchesWatch ==
    [][/\ op'.name = "start" => watches = {}
       /\ isTracking' <=> watchId' # NoWatch]_vars

\* C21: calculateDistance is symmetric and zero on identical points: the value
\* returned for (pos1, pos2) is the value for (pos2, pos1), and it is 0 when
\* pos1 = pos2
DistanceSymmetricAndZero ==
    op.name = "calculateDistance" =>
        /\ answer = calculateDistance(query.pos2, query.pos1)
        /\ query.pos1 = query.pos2 => answer = 0

DistanceAcrossTheGrid ==
    /\ op.name = "calculateDistance"
    /\ query.pos1.latitude # query.pos2.latitude
    /\ query.pos1.longitude # query.pos2.longitude
    /\ answer > distanceFilter * Abs(query.pos2.latitude - query.pos1.latitude)

\* C29: getNearbyParkingSpots returns only stored records with isAvailable
\* true that lie within radiusKm of the query point, in order of non-decreasing
\* distance from it; when the store query fails it returns the empty list
FromQueryPoint(spot) ==
    FirebaseService_calculateDistance(query.latitude, query.longitude,
                                      spot.latitude, spot.longitude)

NearbyAvailableSorted ==
    /\ op.name = "getNearbyParkingSpots" =>
          /\ \A i \in 1..Len(answer) :
                /\ \E j \in 1..Len(query.collection) : query.collection[j] = answer[i]
                /\ answer[i].isAvailable
                /\ FromQueryPoint(answer[i]) <= query.radiusKm
          /\ \A i, j \in 1..Len(answer) :
                i < j => FromQueryPoint(answer[i]) <= FromQueryPoint(answer[j])
    /\ op.name = "getNearbyParkingSpotsError" => answer = <<>>

NearbyReordered ==
    /\ op.name = "getNearbyParkingSpots"
    /\ Len(answer) = 2
    /\ answer[1] = query.collection[2]
    /\ FromQueryPoint(answer[1]) < FromQueryPoint(answer[2])

====
